---- MODULE Spec2Model ----
(***************************************************************************)
(* Streaming SHA-256 front end (sw/sha256.c) driving a register-mapped     *)
(* compression accelerator.                                                *)
(*                                                                         *)
(* A 32-bit word is kept as its four bytes, most significant first, so     *)
(* that every unsigned 32-bit value is representable and the code's        *)
(* shifts, masks and truncations to uchar are byte selections.  A 64-bit   *)
(* value of the reference arithmetic is four base-65536 digits, most       *)
(* significant first.                                                      *)
(***************************************************************************)
EXTENDS Integers, Sequences, FiniteSets, TLC

(* ------------------------------ bounds --------------------------------- *)
\* longest message hashed by the two-session caller
MaxLen == 130
\* polls of Control that returned "not DONE" which a call's access log keeps
MaxPolls == 2
\* calls issued on a context after it was finalized
MaxPost == 1

Threads == {1, 2}
\* first byte of the caller's message; byte k is MsgByte(k)
Seeds == {7}
\* message lengths of the two-session caller: empty, short, the padding
\* boundaries 55/56, 63/64/65, and two blocks and a bit
MsgLens == {0, 3, 55, 56, 63, 64, 65, MaxLen}
\* chunk lengths offered to each SHA256Update call of the chunked session,
\* besides "all that is left"
ChunkLens == {0, 1, 64, 66}
\* lengths of an SHA256Update issued after SHA256Final
PostLens == {1, 64}
\* message lengths of a context that starts close to a carry of its bit count
CarryLens == {3, 60, 66}
\* message lengths of the callers of SHA256()
OneLens == {0, 3, 55, 56, 63, 64}
\* message lengths of two threads calling SHA256() at once
ConcLens == {<<0, 0>>, <<3, 3>>}

(* ------------------------ program constants ---------------------------- *)
BLOCK == 64
LENPOS == 56
REG_CONTROL == 0
REG_MSG_BASE == 4
REG_STATE_IN_BASE == 68
REG_STATE_OUT_BASE == 100
CTRL_GO == <<0, 0, 0, 1>>
CTRL_DONE == <<128, 0, 0, 0>>
ZeroWord == <<0, 0, 0, 0>>

RegOffsets == {REG_CONTROL}
              \cup {REG_MSG_BASE + 4 * k : k \in 0..15}
              \cup {REG_STATE_IN_BASE + 4 * k : k \in 0..7}
              \cup {REG_STATE_OUT_BASE + 4 * k : k \in 0..7}

InitState == << <<106, 9, 230, 103>>, <<187, 103, 174, 133>>,
                <<60, 110, 243, 114>>, <<165, 79, 245, 58>>,
                <<81, 14, 82, 127>>, <<155, 5, 104, 140>>,
                <<31, 131, 217, 171>>, <<91, 224, 205, 25>> >>

(* --------------------------- word arithmetic --------------------------- *)
Hi16(w) == w[1] * 256 + w[2]
Lo16(w) == w[3] * 256 + w[4]
MkWord(h, l) == <<h \div 256, h % 256, l \div 256, l % 256>>

\* a > b on unsigned 32-bit values
WordGT(a, b) == \/ Hi16(a) > Hi16(b)
                \/ Hi16(a) = Hi16(b) /\ Lo16(a) > Lo16(b)

\* 0xffffffff - c, for 0 <= c < 65536
MaxMinus(c) == MkWord(65535, 65535 - c)

\* a + c in uint arithmetic (mod 2^32), for 0 <= c < 65536
WordAdd(a, c) ==
    LET l == Lo16(a) + c
    IN  MkWord((Hi16(a) + l \div 65536) % 65536, l % 65536)

\* ++b in uint arithmetic
WordInc(b) == WordAdd(b, 1)

\* a variant that never carries into the high word
DBL_INT_ADD_NoCarry(bl, c) == << WordAdd(bl[1], c), bl[2] >>

\* DBL_INT_ADD(a, b, c): if (a > 0xffffffff - (c)) ++b; a += c;
\* bl = <<bitlen[0], bitlen[1]>>
DBL_INT_ADD(bl, c) ==
    << WordAdd(bl[1], c),
       IF WordGT(bl[1], MaxMinus(c)) THEN WordInc(bl[2]) ELSE bl[2] >>

\* a variant that takes the four bytes least significant first
BE32_LE(d, j) == <<d[j + 4], d[j + 3], d[j + 2], d[j + 1]>>

\* (data[j] << 24) | (data[j+1] << 16) | (data[j+2] << 8) | data[j+3];
\* d is indexed from 1, the C index j is d[j + 1]
BE32(d, j) == <<d[j + 1], d[j + 2], d[j + 3], d[j + 4]>>

\* (w >> (24 - k * 8)) & 0xff
ByteOf(w, k) == w[k + 1]

(* ----------------------- reference 64-bit values ----------------------- *)
\* x + n mod 2^64 on base-65536 digits, for 0 <= n < 2^15
U64Add(x, n) ==
    LET s4 == x[4] + n
        s3 == x[3] + s4 \div 65536
        s2 == x[2] + s3 \div 65536
        s1 == x[1] + s2 \div 65536
    IN  <<s1 % 65536, s2 % 65536, s3 % 65536, s4 % 65536>>

U64Bytes(x) == << x[1] \div 256, x[1] % 256, x[2] \div 256, x[2] % 256,
                  x[3] \div 256, x[3] % 256, x[4] \div 256, x[4] % 256 >>

U64Zero == <<0, 0, 0, 0>>

\* bitlen[1]:bitlen[0] read as one 64-bit value
Bits64(bl) == <<Hi16(bl[2]), Lo16(bl[2]), Hi16(bl[1]), Lo16(bl[1])>>

(* ------------------------------- state --------------------------------- *)
VARIABLES
    ctx,     \* ctx[t]: SHA256_CTX of thread t: data, datalen, bitlen, state
    loc,     \* loc[t]: locals of the calls in progress
    pc,      \* pc[t]: position of thread t in the code
    hash,    \* hash[t]: the caller's 32-byte output buffer
    reg,     \* the accelerator's register bank, by offset from REG_BASE0
    busy,    \* the accelerator is computing a round
    drv,     \* drv[t]: the caller's position in its script
    input,   \* the caller's message: seed and length
    gh       \* gh[t]: history of thread t (logs, values at call entry)

vars == <<ctx, loc, pc, hash, reg, busy, drv, input, gh>>

\* byte k (from 0) of the callers' byte stream
MsgByte(k) == (input.seed + 37 * k) % 256

\* the length of the message of thread t
Total(t) == input.total[t]

\* where in the stream the message of thread t starts (its data pointer)
Origin(t) == 11 * (t - 1)

NoLocals == [i |-> 0, len |-> 0, src |-> 0, fi |-> 0, ti |-> 0,
             ctl |-> ZeroWord, ret |-> "idle"]

NoRef == [blocks |-> <<>>, hash |-> <<>>, zero |-> FALSE, span |-> FALSE]

(* ------------------------------ helpers -------------------------------- *)
Max(a, b) == IF a > b THEN a ELSE b

\* ctx->data[k] = b, k a C index
Store(d, k, b) == [d EXCEPT ![k + 1] = b]

\* while (i < to) ctx->data[i++] = 0x00, from i = from
ZeroFill(d, from, to) ==
    [k \in 1..BLOCK |-> IF from < k /\ k <= to THEN 0 ELSE d[k]]

\* lines 126-133: the bit count into data[56..63], high word first
Footer(d, bl) ==
    [k \in 1..BLOCK |->
        IF k <= LENPOS THEN d[k]
        ELSE IF k <= LENPOS + 4 THEN ByteOf(bl[2], k - LENPOS - 1)
        ELSE ByteOf(bl[1], k - LENPOS - 5)]

\* a variant that puts the least significant byte of each word first
Serialize_LE(st) ==
    [n \in 1..32 |-> ByteOf(st[((n - 1) \div 4) + 1], 3 - ((n - 1) % 4))]

\* lines 139-148: hash[i + 4k] = (state[k] >> (24 - i * 8)) & 0xff
Serialize(st) ==
    [n \in 1..32 |-> ByteOf(st[((n - 1) \div 4) + 1], (n - 1) % 4)]

\* memset + the eight initial constants
InitCtx == [data |-> [k \in 1..BLOCK |-> 0], datalen |-> 0,
            bitlen |-> <<ZeroWord, ZeroWord>>, state |-> InitState]

\* entering SHA256Transform(ctx, ctx->data): fresh locals, return address r
EnterTransform(l, r) == [l EXCEPT !.ti = 0, !.ctl = ZeroWord, !.ret = r]

\* history: the block handed to the transform, and a fresh access log
\* and the state[] it was called with
LogBlock(g, d, st) == [g EXCEPT !.blocks = Append(@, d), !.acc = <<>>, !.tin = st]

LogAccess(g, e) == [g EXCEPT !.acc = Append(@, e)]

LogStore(g, k) == [g EXCEPT !.maxidx = Max(@, k)]

\* history: SHA256Final is entered with datalen = k
EnterFinal(g, k) == [g EXCEPT !.fblocks = Len(g.blocks), !.fdatalen = k]

(* ---------------------------- accelerator ------------------------------ *)
GoBit(w) == w[4] % 2 = 1
DoneBit(w) == w[1] >= 128

RECURSIVE WeightedSum(_, _)
WeightedSum(ws, k) ==
    IF k = 0 THEN 0
    ELSE WeightedSum(ws, k - 1)
         + (4 * k - 3) * ws[k][1] + (4 * k - 2) * ws[k][2]
         + (4 * k - 1) * ws[k][3] + (4 * k) * ws[k][4]

\* The round function of the accelerator: a deterministic function of the
\* eight state-in words and the sixteen message words, sensitive to every
\* byte and to their order.  It stands for the FIPS 180-4 compression.
Compress(sin, m) ==
    LET mix == WeightedSum(m, 16) + 3 * WeightedSum(sin, 8)
    IN  [i \in 1..8 |->
            [p \in 1..4 |-> (sin[i][p] + mix + 8 * i + p) % 256]]

\* The software transform of the contract: the same round function applied to
\* the block parsed into sixteen big-endian words and to the state.
SoftwareTransform(block, st) ==
    Compress(st, [j \in 1..16 |-> <<block[4 * j - 3], block[4 * j - 2],
                                     block[4 * j - 1], block[4 * j]>>])

MsgRegs(r) == [j \in 1..16 |-> r[REG_MSG_BASE + 4 * (j - 1)]]
StateInRegs(r) == [j \in 1..8 |-> r[REG_STATE_IN_BASE + 4 * (j - 1)]]

\* A software write of v to Control: bit0 is stored; a 0 -> 1 edge of GO
\* starts a round and clears DONE.
CtrlAfterWrite(r, v) ==
    LET rising == ~GoBit(r[REG_CONTROL]) /\ GoBit(v)
    IN  << IF rising THEN 0 ELSE (IF DoneBit(r[REG_CONTROL]) THEN 128 ELSE 0),
           0, 0, IF GoBit(v) THEN 1 ELSE 0 >>

StartsRound(r, v) == ~GoBit(r[REG_CONTROL]) /\ GoBit(v)

\* The round completes: state-out is written, DONE is set.
AccelDone ==
    /\ busy
    /\ busy' = FALSE
    /\ reg' = LET out == Compress(StateInRegs(reg), MsgRegs(reg))
              IN  [o \in RegOffsets |->
                    IF o = REG_CONTROL
                    THEN <<128, 0, 0, reg[REG_CONTROL][4]>>
                    ELSE IF o >= REG_STATE_OUT_BASE
                    THEN out[((o - REG_STATE_OUT_BASE) \div 4) + 1]
                    ELSE reg[o]]
    /\ UNCHANGED <<ctx, loc, pc, hash, drv, input, gh>>

(* --------------------------- SHA256Transform --------------------------- *)
\* line 54: m[i] parsed from data[4i..4i+3] and written to message register i
TrMsg(t) ==
    /\ pc[t] = "tr_msg"
    /\ LET i == loc[t].ti
           m == BE32(ctx[t].data, 4 * i)
           o == REG_MSG_BASE + i * 4
       IN  /\ reg' = [reg EXCEPT ![o] = m]
           /\ gh' = [gh EXCEPT ![t] = LogAccess(@, <<"W", o, m>>)]
           /\ IF i + 1 < 16
              THEN /\ loc' = [loc EXCEPT ![t].ti = i + 1]
                   /\ pc' = pc
              ELSE /\ loc' = [loc EXCEPT ![t].ti = 0]
                   /\ pc' = [pc EXCEPT ![t] = "tr_state"]
    /\ UNCHANGED <<ctx, hash, busy, drv, input>>

\* a variant that takes the state-out base for the state words
TrState_OutBase(t) ==
    /\ pc[t] = "tr_state"
    /\ LET i == loc[t].ti
           o == REG_STATE_OUT_BASE + i * 4
           v == ctx[t].state[i + 1]
       IN  /\ reg' = [reg EXCEPT ![o] = v]
           /\ gh' = [gh EXCEPT ![t] = LogAccess(@, <<"W", o, v>>)]
           /\ IF i + 1 < 8
              THEN /\ loc' = [loc EXCEPT ![t].ti = i + 1]
                   /\ pc' = pc
              ELSE /\ loc' = [loc EXCEPT ![t].ti = 0]
                   /\ pc' = [pc EXCEPT ![t] = "tr_clear"]
    /\ UNCHANGED <<ctx, hash, busy, drv, input>>

\* line 59: ctx->state[i] written to state-in register i
TrState(t) ==
    /\ pc[t] = "tr_state"
    /\ LET i == loc[t].ti
           o == REG_STATE_IN_BASE + i * 4
           v == ctx[t].state[i + 1]
       IN  /\ reg' = [reg EXCEPT ![o] = v]
           /\ gh' = [gh EXCEPT ![t] = LogAccess(@, <<"W", o, v>>)]
           /\ IF i + 1 < 8
              THEN /\ loc' = [loc EXCEPT ![t].ti = i + 1]
                   /\ pc' = pc
              ELSE /\ loc' = [loc EXCEPT ![t].ti = 0]
                   /\ pc' = [pc EXCEPT ![t] = "tr_clear"]
    /\ UNCHANGED <<ctx, hash, busy, drv, input>>

\* WRITE_REG(REG_CONTROL(base), v) and where the code goes next
CtrlWrite(t, v, next) ==
    /\ reg' = [reg EXCEPT ![REG_CONTROL] = CtrlAfterWrite(reg, v)]
    /\ busy' = (busy \/ StartsRound(reg, v))
    /\ gh' = [gh EXCEPT ![t] = LogAccess(@, <<"W", REG_CONTROL, v>>)]
    /\ pc' = [pc EXCEPT ![t] = next]
    /\ UNCHANGED <<ctx, loc, hash, drv, input>>

\* a variant without the write of 0 that precedes GO
TrClear_Skip(t) ==
    /\ pc[t] = "tr_clear"
    /\ pc' = [pc EXCEPT ![t] = "tr_go"]
    /\ UNCHANGED <<ctx, loc, hash, reg, busy, drv, input, gh>>

\* line 63
TrClear(t) ==
    /\ pc[t] = "tr_clear"
    /\ CtrlWrite(t, ZeroWord, "tr_go")

\* line 64
TrGo(t) ==
    /\ pc[t] = "tr_go"
    /\ CtrlWrite(t, CTRL_GO, "tr_poll")

\* the control reads of this call that returned "not DONE"
Polls(g) == Cardinality({k \in 1..Len(g.acc) :
                g.acc[k][1] = "R" /\ g.acc[k][2] = REG_CONTROL
                /\ ~DoneBit(g.acc[k][3])})

\* a variant whose read is not volatile: the register is read once per call
\* and the value is used again in every later iteration
TrPoll_Cached(t) ==
    /\ pc[t] = "tr_poll"
    /\ LET first == \A k \in 1..Len(gh[t].acc) :
                        ~(gh[t].acc[k][1] = "R" /\ gh[t].acc[k][2] = REG_CONTROL)
           v == IF first THEN reg[REG_CONTROL] ELSE loc[t].ctl
       IN  /\ loc' = [loc EXCEPT ![t].ctl = v]
           /\ gh' = IF first
                    THEN [gh EXCEPT ![t] = LogAccess(@, <<"R", REG_CONTROL, v>>)]
                    ELSE gh
    /\ pc' = [pc EXCEPT ![t] = "tr_test"]
    /\ UNCHANGED <<ctx, hash, reg, busy, drv, input>>

\* line 67, the read: READ_REG(REG_CONTROL(base)).  Every read is a fresh
\* read of the register; the log keeps at most MaxPolls reads of "not DONE".
TrPoll(t) ==
    /\ pc[t] = "tr_poll"
    /\ LET v == reg[REG_CONTROL]
       IN  /\ loc' = [loc EXCEPT ![t].ctl = v]
           /\ gh' = IF DoneBit(v) \/ Polls(gh[t]) < MaxPolls
                    THEN [gh EXCEPT ![t] = LogAccess(@, <<"R", REG_CONTROL, v>>)]
                    ELSE gh
    /\ pc' = [pc EXCEPT ![t] = "tr_test"]
    /\ UNCHANGED <<ctx, hash, reg, busy, drv, input>>

\* a variant that goes on to the state-out reads whatever was read
TrTest_NoWait(t) ==
    /\ pc[t] = "tr_test"
    /\ pc' = [pc EXCEPT ![t] = "tr_read"]
    /\ UNCHANGED <<ctx, loc, hash, reg, busy, drv, input, gh>>

\* line 67, the test: (... & CTRL_DONE) == 0 loops
TrTest(t) ==
    /\ pc[t] = "tr_test"
    /\ pc' = [pc EXCEPT ![t] = IF DoneBit(loc[t].ctl) THEN "tr_read" ELSE "tr_poll"]
    /\ UNCHANGED <<ctx, loc, hash, reg, busy, drv, input, gh>>

\* a variant that stores the words read in the reverse order
TrRead_Swapped(t) ==
    /\ pc[t] = "tr_read"
    /\ LET i == loc[t].ti
           o == REG_STATE_OUT_BASE + i * 4
           v == reg[o]
       IN  /\ ctx' = [ctx EXCEPT ![t].state[8 - i] = v]
           /\ gh' = [gh EXCEPT ![t] = LogAccess(@, <<"R", o, v>>)]
           /\ IF i + 1 < 8
              THEN /\ loc' = [loc EXCEPT ![t].ti = i + 1]
                   /\ pc' = pc
              ELSE /\ loc' = [loc EXCEPT ![t].ti = 0]
                   /\ pc' = [pc EXCEPT ![t] = "tr_ret"]
    /\ UNCHANGED <<hash, reg, busy, drv, input>>

\* line 71: ctx->state[i] = READ_REG(REG_STATE_OUT_BASE(base) + i * 4)
TrRead(t) ==
    /\ pc[t] = "tr_read"
    /\ LET i == loc[t].ti
           o == REG_STATE_OUT_BASE + i * 4
           v == reg[o]
       IN  /\ ctx' = [ctx EXCEPT ![t].state[i + 1] = v]
           /\ gh' = [gh EXCEPT ![t] = LogAccess(@, <<"R", o, v>>)]
           /\ IF i + 1 < 8
              THEN /\ loc' = [loc EXCEPT ![t].ti = i + 1]
                   /\ pc' = pc
              ELSE /\ loc' = [loc EXCEPT ![t].ti = 0]
                   /\ pc' = [pc EXCEPT ![t] = "tr_ret"]
    /\ UNCHANGED <<hash, reg, busy, drv, input>>

\* history: the words a call read from the state-out registers, by register
StateOutRead(acc) ==
    [j \in 1..8 |->
        LET k == CHOOSE k \in 1..Len(acc) :
                    acc[k][1] = "R" /\ acc[k][2] = REG_STATE_OUT_BASE + 4 * (j - 1)
        IN  acc[k][3]]

\* line 73: return to the caller; the call's locals and its log end
TrRet(t) ==
    /\ pc[t] = "tr_ret"
    /\ pc' = [pc EXCEPT ![t] = loc[t].ret]
    /\ loc' = [loc EXCEPT ![t].ti = 0, ![t].ctl = ZeroWord, ![t].ret = "idle"]
    /\ gh' = [gh EXCEPT ![t].acc = <<>>, ![t].tin = <<>>,
                        ![t].lastout = StateOutRead(gh[t].acc)]
    /\ UNCHANGED <<ctx, hash, reg, busy, drv, input>>

(* ----------------------------- SHA256Init ------------------------------ *)
\* a variant without the memset: only the eight constants are set
SHA256Init_NoMemset(t) ==
    /\ pc[t] = "idle"
    /\ ctx' = [ctx EXCEPT ![t].state = InitState]
    /\ gh' = [gh EXCEPT ![t].blocks = <<>>, ![t].acc = <<>>, ![t].maxidx = -1,
                        ![t].lastout = <<>>,
                        ![t].base = U64Zero, ![t].finalized = FALSE,
                        ![t].fstate = <<>>, ![t].zero = FALSE, ![t].span = FALSE,
                        ![t].ref = IF gh[t].finalized
                                   THEN [blocks |-> gh[t].blocks, hash |-> hash[t],
                                         zero |-> gh[t].zero, span |-> gh[t].span]
                                   ELSE gh[t].ref]
    /\ UNCHANGED <<loc, pc, hash, reg, busy, input>>

\* lines 78-88; the history of the context starts afresh
SHA256Init(t) ==
    /\ pc[t] = "idle"
    /\ ctx' = [ctx EXCEPT ![t] = InitCtx]
    /\ gh' = [gh EXCEPT ![t].blocks = <<>>, ![t].acc = <<>>, ![t].maxidx = -1,
                        ![t].lastout = <<>>,
                        ![t].base = U64Zero, ![t].finalized = FALSE,
                        ![t].fstate = <<>>, ![t].zero = FALSE, ![t].span = FALSE,
                        ![t].ref = IF gh[t].finalized
                                   THEN [blocks |-> gh[t].blocks, hash |-> hash[t],
                                         zero |-> gh[t].zero, span |-> gh[t].span]
                                   ELSE gh[t].ref]
    /\ UNCHANGED <<loc, pc, hash, reg, busy, input>>

(* ---------------------------- SHA256Update ----------------------------- *)
\* a variant that starts every call on an empty buffer
UpdateCall_Restart(t, off, n) ==
    /\ pc[t] = "idle"
    /\ pc' = [pc EXCEPT ![t] = "upd_loop"]
    /\ loc' = [loc EXCEPT ![t] = [NoLocals EXCEPT !.src = off, !.len = n]]
    /\ ctx' = [ctx EXCEPT ![t].datalen = 0]
    /\ gh' = [gh EXCEPT ![t].cbits = Bits64(ctx[t].bitlen),
                        ![t].cdatalen = ctx[t].datalen,
                        ![t].cstate = ctx[t].state,
                        ![t].zero = @ \/ n = 0,
                        ![t].span = @ \/ ((ctx[t].datalen + n) \div BLOCK >= 2)]
    /\ UNCHANGED <<hash, reg, busy, input>>

\* the call SHA256Update(ctx, data, len), data = the caller's bytes from off
UpdateCall(t, off, n) ==
    /\ pc[t] = "idle"
    /\ pc' = [pc EXCEPT ![t] = "upd_loop"]
    /\ loc' = [loc EXCEPT ![t] = [NoLocals EXCEPT !.src = off, !.len = n]]
    /\ gh' = [gh EXCEPT ![t].cbits = Bits64(ctx[t].bitlen),
                        ![t].cdatalen = ctx[t].datalen,
                        ![t].cstate = ctx[t].state,
                        ![t].zero = @ \/ n = 0,
                        ![t].span = @ \/ ((ctx[t].datalen + n) \div BLOCK >= 2)]
    /\ UNCHANGED <<ctx, hash, reg, busy, input>>

\* a variant that hands the block over one byte late (datalen > 64)
UpdLoop_Late(t) ==
    /\ pc[t] = "upd_loop"
    /\ loc[t].i < loc[t].len
    /\ LET k == ctx[t].datalen
           d == Store(ctx[t].data, k, MsgByte(loc[t].src + loc[t].i))
       IN  /\ ctx' = [ctx EXCEPT ![t].data = d, ![t].datalen = k + 1]
           /\ IF k + 1 = BLOCK + 1
              THEN /\ pc' = [pc EXCEPT ![t] = "tr_msg"]
                   /\ loc' = [loc EXCEPT ![t] = EnterTransform(@, "upd_ret")]
                   /\ gh' = [gh EXCEPT ![t] = LogBlock(LogStore(@, k), d, ctx[t].state)]
              ELSE /\ pc' = pc
                   /\ loc' = [loc EXCEPT ![t].i = @ + 1]
                   /\ gh' = [gh EXCEPT ![t] = LogStore(@, k)]
    /\ UNCHANGED <<hash, reg, busy, drv, input>>

\* a variant that stores with a pre-increment, ctx->data[++ctx->datalen]
UpdLoop_PreInc(t) ==
    /\ pc[t] = "upd_loop"
    /\ loc[t].i < loc[t].len
    /\ LET k == ctx[t].datalen
           d == Store(ctx[t].data, k + 1, MsgByte(loc[t].src + loc[t].i))
       IN  /\ ctx' = [ctx EXCEPT ![t].data = d, ![t].datalen = k + 1]
           /\ IF k + 1 = BLOCK
              THEN /\ pc' = [pc EXCEPT ![t] = "tr_msg"]
                   /\ loc' = [loc EXCEPT ![t] = EnterTransform(@, "upd_ret")]
                   /\ gh' = [gh EXCEPT ![t] = LogBlock(LogStore(@, k), d, ctx[t].state)]
              ELSE /\ pc' = pc
                   /\ loc' = [loc EXCEPT ![t].i = @ + 1]
                   /\ gh' = [gh EXCEPT ![t] = LogStore(@, k)]
    /\ UNCHANGED <<hash, reg, busy, drv, input>>

\* lines 95-100: one iteration up to the call of the transform
UpdLoop(t) ==
    /\ pc[t] = "upd_loop"
    /\ loc[t].i < loc[t].len
    /\ LET k == ctx[t].datalen
           d == Store(ctx[t].data, k, MsgByte(loc[t].src + loc[t].i))
       IN  /\ ctx' = [ctx EXCEPT ![t].data = d, ![t].datalen = k + 1]
           /\ IF k + 1 = BLOCK
              THEN /\ pc' = [pc EXCEPT ![t] = "tr_msg"]
                   /\ loc' = [loc EXCEPT ![t] = EnterTransform(@, "upd_ret")]
                   /\ gh' = [gh EXCEPT ![t] = LogBlock(LogStore(@, k), d, ctx[t].state)]
              ELSE /\ pc' = pc
                   /\ loc' = [loc EXCEPT ![t].i = @ + 1]
                   /\ gh' = [gh EXCEPT ![t] = LogStore(@, k)]
    /\ UNCHANGED <<hash, reg, busy, drv, input>>

\* a variant that counts the block's bytes, not its bits
UpdRet_Adds64(t) ==
    /\ pc[t] = "upd_ret"
    /\ ctx' = [ctx EXCEPT ![t].bitlen = DBL_INT_ADD(@, 64), ![t].datalen = 0]
    /\ loc' = [loc EXCEPT ![t].i = @ + 1]
    /\ pc' = [pc EXCEPT ![t] = "upd_loop"]
    /\ UNCHANGED <<hash, reg, busy, drv, input, gh>>

\* lines 101-103 and ++i: after the transform has returned
UpdRet(t) ==
    /\ pc[t] = "upd_ret"
    /\ ctx' = [ctx EXCEPT ![t].bitlen = DBL_INT_ADD(@, 512), ![t].datalen = 0]
    /\ loc' = [loc EXCEPT ![t].i = @ + 1]
    /\ pc' = [pc EXCEPT ![t] = "upd_loop"]
    /\ UNCHANGED <<hash, reg, busy, drv, input, gh>>

\* line 95, i < len false: the call returns
UpdExit(t) ==
    /\ pc[t] = "upd_loop"
    /\ ~(loc[t].i < loc[t].len)
    /\ pc' = [pc EXCEPT ![t] = "idle"]
    /\ loc' = [loc EXCEPT ![t] = NoLocals]
    /\ gh' = [gh EXCEPT ![t].cbits = U64Zero, ![t].cdatalen = 0, ![t].cstate = <<>>]
    /\ UNCHANGED <<ctx, hash, reg, busy, drv, input>>

(* ----------------------------- SHA256Final ----------------------------- *)
\* a variant with the test i >= 56 in place of i > 56
FinalCall_Ge(t) ==
    /\ pc[t] = "idle"
    /\ LET k == ctx[t].datalen
           bl == DBL_INT_ADD(ctx[t].bitlen, k * 8)
           d == Store(ctx[t].data, k, 128)
           i == k + 1
       IN  IF i >= LENPOS
           THEN LET full == ZeroFill(d, i, BLOCK)
                IN  /\ ctx' = [ctx EXCEPT ![t].data = full, ![t].bitlen = bl]
                    /\ pc' = [pc EXCEPT ![t] = "tr_msg"]
                    /\ loc' = [loc EXCEPT ![t] =
                                 EnterTransform([NoLocals EXCEPT !.fi = BLOCK], "fin_mid")]
                    /\ gh' = [gh EXCEPT ![t] =
                                 LogBlock(LogStore(LogStore(EnterFinal(@, k), k), BLOCK - 1),
                                          full, ctx[t].state)]
           ELSE /\ ctx' = [ctx EXCEPT ![t].data = d, ![t].bitlen = bl]
                /\ pc' = [pc EXCEPT ![t] = "fin_len"]
                /\ loc' = [loc EXCEPT ![t] = [NoLocals EXCEPT !.fi = i]]
                /\ gh' = [gh EXCEPT ![t] = LogStore(EnterFinal(@, k), k)]
    /\ UNCHANGED <<hash, reg, busy, input>>

\* lines 111-120: count the tail, append 0x80, and either fill the block
\* and hand it to the transform or go on to the length
FinalCall(t) ==
    /\ pc[t] = "idle"
    /\ LET k == ctx[t].datalen
           bl == DBL_INT_ADD(ctx[t].bitlen, k * 8)
           d == Store(ctx[t].data, k, 128)
           i == k + 1
       IN  IF i > LENPOS
           THEN LET full == ZeroFill(d, i, BLOCK)
                IN  /\ ctx' = [ctx EXCEPT ![t].data = full, ![t].bitlen = bl]
                    /\ pc' = [pc EXCEPT ![t] = "tr_msg"]
                    /\ loc' = [loc EXCEPT ![t] =
                                 EnterTransform([NoLocals EXCEPT !.fi = BLOCK], "fin_mid")]
                    /\ gh' = [gh EXCEPT ![t] =
                                 LogBlock(LogStore(LogStore(EnterFinal(@, k), k), BLOCK - 1),
                                          full, ctx[t].state)]
           ELSE /\ ctx' = [ctx EXCEPT ![t].data = d, ![t].bitlen = bl]
                /\ pc' = [pc EXCEPT ![t] = "fin_len"]
                /\ loc' = [loc EXCEPT ![t] = [NoLocals EXCEPT !.fi = i]]
                /\ gh' = [gh EXCEPT ![t] = LogStore(EnterFinal(@, k), k)]
    /\ UNCHANGED <<hash, reg, busy, input>>

\* line 121: i = 0
FinMid(t) ==
    /\ pc[t] = "fin_mid"
    /\ loc' = [loc EXCEPT ![t].fi = 0]
    /\ pc' = [pc EXCEPT ![t] = "fin_len"]
    /\ UNCHANGED <<ctx, hash, reg, busy, drv, input, gh>>

\* lines 123-136: zero up to 56, the length, and the last transform
FinLen(t) ==
    /\ pc[t] = "fin_len"
    /\ LET d == Footer(ZeroFill(ctx[t].data, loc[t].fi, LENPOS), ctx[t].bitlen)
       IN  /\ ctx' = [ctx EXCEPT ![t].data = d]
           /\ gh' = [gh EXCEPT ![t] = LogBlock(LogStore(@, BLOCK - 1), d, ctx[t].state)]
    /\ loc' = [loc EXCEPT ![t] = EnterTransform([@ EXCEPT !.fi = LENPOS], "fin_out")]
    /\ pc' = [pc EXCEPT ![t] = "tr_msg"]
    /\ UNCHANGED <<hash, reg, busy, drv, input>>

\* a variant that also puts the initial constants back into state[]
FinOut_Scrub(t) ==
    /\ pc[t] = "fin_out"
    /\ hash' = [hash EXCEPT ![t] = Serialize(ctx[t].state)]
    /\ ctx' = [ctx EXCEPT ![t].state = InitState]
    /\ pc' = [pc EXCEPT ![t] = "idle"]
    /\ loc' = [loc EXCEPT ![t] = NoLocals]
    /\ gh' = [gh EXCEPT ![t].fstate = IF gh[t].finalized THEN @ ELSE ctx[t].state,
                        ![t].finalized = TRUE]
    /\ UNCHANGED <<reg, busy, drv, input>>

\* lines 139-149: the digest is written and the call returns
FinOut(t) ==
    /\ pc[t] = "fin_out"
    /\ hash' = [hash EXCEPT ![t] = Serialize(ctx[t].state)]
    /\ pc' = [pc EXCEPT ![t] = "idle"]
    /\ loc' = [loc EXCEPT ![t] = NoLocals]
    /\ gh' = [gh EXCEPT ![t].fstate = IF gh[t].finalized THEN @ ELSE ctx[t].state,
                        ![t].finalized = TRUE]
    /\ UNCHANGED <<ctx, reg, busy, drv, input>>

(* ------------------------------ callers -------------------------------- *)
\* The caller of thread t follows a script: a session hashed in chunks
\* (phase start1, feed1), then SHA256Init on the same context and the same
\* message hashed as SHA256() does, in one SHA256Update (phase start2,
\* feed2), then calls on the finalized context.
Returned(t) == pc[t] = "idle" /\ drv[t].final /\ gh[t].finalized

\* SHA256Init on a context never used (start1, start2), or on the context
\* of the chunked session once its SHA256Final has returned
StartsSession(t) ==
    IF drv[t].phase = "feed1" THEN Returned(t)
    ELSE drv[t].phase \in {"start1", "start2"}

DrvInit(t) ==
    /\ StartsSession(t)
    /\ SHA256Init(t)
    /\ drv' = [drv EXCEPT ![t].phase = IF @ = "start1" THEN "feed1" ELSE "feed2",
                          ![t].fed = 0, ![t].updated = FALSE, ![t].final = FALSE,
                          ![t].post = 0, ![t].again = FALSE,
                          ![t].from = IF drv[t].phase = "feed1" THEN "final" ELSE "fresh"]

\* SHA256Init on a context in the middle of a stream, with a partial block
\* in its buffer, or a second time in a row
DrvReinit(t) ==
    /\ \/ drv[t].phase = "feed1" /\ ~drv[t].final /\ ctx[t].datalen > 0
       \/ drv[t].phase = "feed2" /\ ~drv[t].updated /\ ~drv[t].again
    /\ SHA256Init(t)
    /\ drv' = [drv EXCEPT ![t].phase = "feed2",
                          ![t].fed = 0, ![t].updated = FALSE, ![t].final = FALSE,
                          ![t].post = 0, ![t].again = (drv[t].phase = "feed2"),
                          ![t].from = IF drv[t].phase = "feed1" THEN "partial" ELSE @]

DrvChunk(t) ==
    /\ drv[t].phase = "feed1"
    /\ ~drv[t].final
    /\ \E n \in ChunkLens \cup {Total(t) - drv[t].fed} :
          /\ drv[t].fed + n <= Total(t)
          /\ UpdateCall(t, Origin(t) + drv[t].fed, n)
          /\ drv' = [drv EXCEPT ![t].fed = @ + n, ![t].updated = TRUE]

\* SHA256(), line 161
DrvWhole(t) ==
    /\ drv[t].phase = "feed2"
    /\ ~drv[t].final
    /\ ~drv[t].updated
    /\ UpdateCall(t, Origin(t), Total(t))
    /\ drv' = [drv EXCEPT ![t].fed = Total(t), ![t].updated = TRUE]

DrvFinal(t) ==
    /\ drv[t].phase \in {"feed1", "feed2"}
    /\ ~drv[t].final
    /\ drv[t].fed = Total(t)
    /\ drv[t].phase = "feed2" => drv[t].updated
    /\ FinalCall(t)
    /\ drv' = [drv EXCEPT ![t].final = TRUE]

DrvPostUpdate(t) ==
    /\ drv[t].phase = "feed2"
    /\ Returned(t)
    /\ drv[t].post < MaxPost
    /\ \E n \in PostLens :
          /\ UpdateCall(t, Origin(t) + drv[t].fed, n)
          /\ drv' = [drv EXCEPT ![t].fed = @ + n, ![t].post = @ + 1]

DrvPostFinal(t) ==
    /\ drv[t].phase = "feed2"
    /\ Returned(t)
    /\ drv[t].post < MaxPost
    /\ FinalCall(t)
    /\ drv' = [drv EXCEPT ![t].post = @ + 1]

(* ------------------------------ SHA256() ------------------------------- *)
\* the characters "%02x" prints
HexDigits == <<"0", "1", "2", "3", "4", "5", "6", "7",
               "8", "9", "a", "b", "c", "d", "e", "f">>

\* sprintf(p, "%02x", b) for an unsigned char b: two digits, then '\0'
Hex2(b) == <<HexDigits[(b \div 16) + 1], HexDigits[(b % 16) + 1], "NUL">>

\* lines 165-167 from iteration i on: sprintf(hashStr + i * 2, "%02x", hash[i])
RECURSIVE HexLoop(_, _, _)
HexLoop(str, h, i) ==
    IF i >= 32 THEN str
    ELSE LET c == Hex2(h[i + 1])
         IN  HexLoop([str EXCEPT ![2 * i + 1] = c[1], ![2 * i + 2] = c[2],
                                 ![2 * i + 3] = c[3]], h, i + 1)

\* the 65 bytes malloc(65) returns: nothing written yet
Fresh65 == [k \in 1..65 |-> "?"]

\* a variant that goes on with the NULL pointer
DrvMalloc_NoCheck(t) ==
    /\ drv[t].phase = "call"
    /\ pc[t] = "idle"
    /\ \E ok \in BOOLEAN :
          drv' = [drv EXCEPT ![t].alloc = IF ok THEN "ok" ELSE "null",
                             ![t].str = IF ok THEN Fresh65 ELSE <<>>,
                             ![t].phase = "start2"]
    /\ UNCHANGED <<ctx, loc, pc, hash, reg, busy, input, gh>>

\* lines 157-158: hashStr = malloc(65); if (!hashStr) return NULL;
DrvMalloc(t) ==
    /\ drv[t].phase = "call"
    /\ pc[t] = "idle"
    /\ \E ok \in BOOLEAN :
          drv' = [drv EXCEPT ![t].alloc = IF ok THEN "ok" ELSE "null",
                             ![t].str = IF ok THEN Fresh65 ELSE <<>>,
                             ![t].phase = IF ok THEN "start2" ELSE "failed",
                             ![t].ret = IF ok THEN "none" ELSE "NULL"]
    /\ UNCHANGED <<ctx, loc, pc, hash, reg, busy, input, gh>>

\* lines 165-170: the digest in hex, the terminator, return hashStr
DrvHex(t) ==
    /\ drv[t].phase = "feed2"
    /\ drv[t].alloc = "ok"
    /\ Returned(t)
    /\ drv' = [drv EXCEPT ![t].str = [HexLoop(@, hash[t], 0) EXCEPT ![65] = "NUL"],
                          ![t].ret = "hashStr",
                          ![t].phase = "done"]
    /\ UNCHANGED <<ctx, loc, pc, hash, reg, busy, input, gh>>

(* ---------------------------- initial states --------------------------- *)
\* a SHA256_CTX on the stack before SHA256Init: any contents
Garbage(b) == [data |-> [k \in 1..BLOCK |-> b], datalen |-> b,
               bitlen |-> <<<<b, b, b, b>>, <<b, b, b, b>>>>,
               state |-> [k \in 1..8 |-> <<b, b, b, b>>]]

NoHistory == [blocks |-> <<>>, acc |-> <<>>, maxidx |-> -1, base |-> U64Zero,
              finalized |-> FALSE, fstate |-> <<>>, cbits |-> U64Zero,
              cdatalen |-> 0, cstate |-> <<>>, tin |-> <<>>, lastout |-> <<>>,
              fblocks |-> 0, fdatalen |-> 0, zero |-> FALSE, span |-> FALSE, ref |-> NoRef]

DrvAt(ph) == [phase |-> ph, fed |-> 0, updated |-> FALSE, final |-> FALSE,
              post |-> 0, again |-> FALSE, from |-> "none",
              alloc |-> "none", str |-> <<>>, ret |-> "none"]

Quiet ==
    /\ loc = [t \in Threads |-> NoLocals]
    /\ pc = [t \in Threads |-> "idle"]
    /\ hash = [t \in Threads |-> <<>>]
    /\ reg = [o \in RegOffsets |-> ZeroWord]
    /\ busy = FALSE

Init ==
    /\ Quiet
    /\ input \in [seed : Seeds, total : {[t \in Threads |-> IF t = 1 THEN n ELSE 0] : n \in MsgLens}]
    /\ \E b \in {0, 170} : ctx = [t \in Threads |-> Garbage(b)]
    /\ drv = [t \in Threads |-> IF t = 1 THEN DrvAt("start1") ELSE DrvAt("off")]
    /\ gh = [t \in Threads |-> NoHistory]

\* the steps of the code a message shorter than 56 bytes goes through
ShortCode(t) ==
    \/ UpdLoop(t) \/ UpdExit(t)
    \/ TrMsg(t) \/ TrState(t) \/ TrClear(t) \/ TrGo(t)
    \/ TrPoll(t) \/ TrTest(t) \/ TrRead(t) \/ TrRet(t)
    \/ FinLen(t) \/ FinOut(t)

Code(t) == ShortCode(t) \/ UpdRet(t) \/ FinMid(t)

Next ==
    \/ \E t \in Threads :
          \/ DrvInit(t) \/ DrvReinit(t) \/ DrvChunk(t) \/ DrvWhole(t)
          \/ DrvFinal(t) \/ DrvPostUpdate(t) \/ DrvPostFinal(t)
          \/ Code(t)
    \/ AccelDone

Spec == Init /\ [][Next]_vars

(* ----------------- a context far into a long stream -------------------- *)
\* bitlen[0], bitlen[1] as SHA256Update leaves them after a whole number of
\* blocks: one block before the low word carries (twice), one
\* block before the high word's low half carries, one block before the
\* 64-bit count wraps, and just after a carry.
PreBits == { << <<255, 255, 254, 0>>, <<0, 0, 0, 0>> >>,
             << <<255, 255, 254, 0>>, <<0, 0, 0, 5>> >>,
             << <<255, 255, 254, 0>>, <<0, 0, 255, 255>> >>,
             << <<255, 255, 254, 0>>, <<255, 255, 255, 255>> >>,
             << <<0, 0, 0, 0>>, <<0, 0, 0, 1>> >> }

MidStream(bl) == [data |-> [k \in 1..BLOCK |-> 90], datalen |-> 0, bitlen |-> bl,
                  state |-> Compress(InitState, [j \in 1..16 |-> <<90, 90, 90, 90>>])]

InitCarry ==
    /\ Quiet
    /\ input \in [seed : Seeds, total : {[t \in Threads |-> IF t = 1 THEN n ELSE 0] : n \in CarryLens}]
    /\ \E bl \in PreBits :
          /\ ctx = [t \in Threads |-> IF t = 1 THEN MidStream(bl) ELSE Garbage(0)]
          /\ gh = [t \in Threads |->
                     IF t = 1 THEN [NoHistory EXCEPT !.base = Bits64(bl), !.maxidx = BLOCK - 1]
                     ELSE NoHistory]
    /\ drv = [t \in Threads |-> IF t = 1 THEN DrvAt("feed1") ELSE DrvAt("off")]

SpecCarry == InitCarry /\ [][Next]_vars

(* ------------------------- callers of SHA256() ------------------------- *)
InitOne ==
    /\ Quiet
    /\ input \in [seed : Seeds, total : {[t \in Threads |-> IF t = 1 THEN n ELSE 0] : n \in OneLens}]
    /\ \E b \in {0, 170} : ctx = [t \in Threads |-> Garbage(b)]
    /\ drv = [t \in Threads |-> IF t = 1 THEN DrvAt("call") ELSE DrvAt("off")]
    /\ gh = [t \in Threads |-> NoHistory]

InitConc ==
    /\ Quiet
    /\ input \in [seed : Seeds, total : ConcLens]
    /\ ctx = [t \in Threads |-> Garbage(0)]
    /\ drv = [t \in Threads |-> DrvAt("start2")]
    /\ gh = [t \in Threads |-> NoHistory]

Software(t) ==
    \/ DrvMalloc(t) \/ DrvInit(t) \/ DrvWhole(t) \/ DrvFinal(t) \/ DrvHex(t)
    \/ Code(t)

NextOne == (\E t \in Threads : Software(t)) \/ AccelDone

SpecOne == InitOne /\ [][NextOne]_vars

\* two threads of one process, each calling SHA256() on its own message of
\* fewer than 56 bytes
NextConc ==
    \/ \E t \in Threads : DrvInit(t) \/ DrvWhole(t) \/ DrvFinal(t) \/ ShortCode(t)
    \/ AccelDone

SpecConc == InitConc /\ [][NextConc]_vars

\* the processor keeps executing the code; the accelerator owes nothing
SpecHang == InitOne /\ [][NextOne]_vars /\ WF_vars(\E t \in Threads : Software(t))

\* the processor keeps executing the code, and the accelerator completes
\* every round it has started
SpecLive == /\ InitOne /\ [][NextOne]_vars
            /\ WF_vars(\E t \in Threads : Software(t))
            /\ WF_vars(AccelDone)

(* ------------------------------ properties ----------------------------- *)
\* the message of thread t, and its first n bytes
Prefix(t, n) == [k \in 1..n |-> MsgByte(Origin(t) + k - 1)]
Msg(t) == Prefix(t, Total(t))

RECURSIVE Flatten(_)
Flatten(bs) == IF bs = <<>> THEN <<>> ELSE Head(bs) \o Flatten(Tail(bs))

\* SHA256Final of the current session of thread t has returned, and nothing
\* was called on the context since
Hashed(t) == Returned(t) /\ drv[t].post = 0

\* C1 (chunk-invariance): when the session that hashed the message in one
\* SHA256Update has returned from SHA256Final, the blocks it handed to the
\* transform, in order, and its digest are those of the earlier session that
\* hashed the same message on the same context in chunks.
C1_ChunkInvariance ==
    \A t \in Threads :
        (drv[t].phase = "feed2" /\ Hashed(t) /\ gh[t].ref # NoRef) =>
            /\ gh[t].blocks = gh[t].ref.blocks
            /\ hash[t] = gh[t].ref.hash

\* the chunked session had a zero-length chunk and a chunk that completed
\* two blocks, and the one-update session of the same message has returned
C1_Witness ==
    /\ drv[1].phase = "feed2" /\ Hashed(1)
    /\ gh[1].ref.zero /\ gh[1].ref.span
    /\ Len(gh[1].blocks) = 3
    /\ Len(hash[1]) = 32

\* the padding of FIPS 180-4 for a message m whose bit count is bits:
\* m, 0x80, the fewest zero bytes that make the total a multiple of 64, and
\* the bit count in 8 bytes, most significant first
ZeroPad(n) == CHOOSE z \in 0..(BLOCK - 1) :
                 /\ (n + 1 + z + 8) % BLOCK = 0
                 /\ \A y \in 0..(z - 1) : (n + 1 + y + 8) % BLOCK # 0

Padded(m, bits) ==
    m \o <<128>> \o [k \in 1..ZeroPad(Len(m)) |-> 0] \o U64Bytes(bits)

\* C2 (padding): when SHA256Final has returned, the blocks handed to the
\* transform since SHA256Init are the padded message cut into 64-byte blocks;
\* there is one block more than for a tail of at most 55 bytes exactly when
\* the tail is 56..63 bytes, and then bytes 0..55 of the last block are zero.
C2_Padding ==
    \A t \in Threads :
        (Hashed(t) /\ gh[t].base = U64Zero) =>
            LET n == Total(t)
                extra == (n % BLOCK) + 1 > LENPOS
            IN  /\ \A k \in 1..Len(gh[t].blocks) : Len(gh[t].blocks[k]) = BLOCK
                /\ Flatten(gh[t].blocks) = Padded(Msg(t), U64Add(U64Zero, 8 * n))
                /\ Len(gh[t].blocks) = (n \div BLOCK) + (IF extra THEN 2 ELSE 1)
                /\ extra => \A k \in 1..LENPOS : gh[t].blocks[Len(gh[t].blocks)][k] = 0

\* a message of 56 bytes (fill position 57 after the 0x80) has been hashed in
\* two blocks
C2_Witness ==
    /\ Hashed(1) /\ drv[1].phase = "feed1"
    /\ Total(1) = 56
    /\ Len(gh[1].blocks) = 2

\* C3 (length footer): when SHA256Final has returned, bytes 56..63 of the
\* last block handed to the transform are, most significant first, the 64-bit
\* value (bits counted before + 8 * bytes passed to SHA256Update) mod 2^64,
\* and bitlen[1]:bitlen[0] holds that value, also across a carry of the low
\* word and a wrap of the whole count.
C3_LengthFooter ==
    \A t \in Threads :
        Hashed(t) =>
            LET last == gh[t].blocks[Len(gh[t].blocks)]
                want == U64Add(gh[t].base, 8 * drv[t].fed)
            IN  /\ [k \in 1..8 |-> last[LENPOS + k]] = U64Bytes(want)
                /\ Bits64(ctx[t].bitlen) = want

\* a context that started one block short of 2^32 bits has been finalized
\* with the carry in its high word
C3_Witness ==
    /\ Hashed(1) /\ drv[1].phase = "feed1"
    /\ gh[1].base = <<0, 0, 65535, 65024>>
    /\ ctx[1].bitlen[2] = <<0, 0, 0, 1>>
    /\ drv[1].fed = 66

TrPcs == {"tr_msg", "tr_state", "tr_clear", "tr_go", "tr_poll", "tr_test",
          "tr_read", "tr_ret"}

IsCtrlRead(e) == e[1] = "R" /\ e[2] = REG_CONTROL

\* entry k of a call's register accesses is the one the protocol has there
AccessOK(acc, k) ==
    LET e == acc[k]
    IN  IF k <= 16 THEN e[1] = "W" /\ e[2] = REG_MSG_BASE + 4 * (k - 1)
        ELSE IF k <= 24 THEN e[1] = "W" /\ e[2] = REG_STATE_IN_BASE + 4 * (k - 17)
        ELSE IF k = 25 THEN e = <<"W", REG_CONTROL, ZeroWord>>
        ELSE IF k = 26 THEN e = <<"W", REG_CONTROL, CTRL_GO>>
        ELSE /\ e[1] = "R"
             /\ IF e[2] = REG_CONTROL
                THEN k = 27 \/ (IsCtrlRead(acc[k - 1]) /\ ~DoneBit(acc[k - 1][3]))
                ELSE /\ e[2] \in {REG_STATE_OUT_BASE + 4 * j : j \in 0..7}
                     /\ IF e[2] = REG_STATE_OUT_BASE
                        THEN IsCtrlRead(acc[k - 1]) /\ DoneBit(acc[k - 1][3])
                        ELSE acc[k - 1][1] = "R" /\ acc[k - 1][2] = e[2] - 4

\* C4 (register protocol order): the register accesses of every
\* SHA256Transform call are, in order, the 16 message writes, the 8 state-in
\* writes, Control = 0, Control = GO, reads of Control of which only the last
\* shows DONE, and the 8 state-out reads; nothing is written after GO; a call
\* about to return has made them all.
C4_ProtocolOrder ==
    \A t \in Threads :
        /\ \A k \in 1..Len(gh[t].acc) : AccessOK(gh[t].acc, k)
        /\ pc[t] \in TrPcs \ {"tr_msg"} => Len(gh[t].acc) >= 16
        /\ pc[t] = "tr_ret" =>
              /\ Len(gh[t].acc) >= 35
              /\ gh[t].acc[Len(gh[t].acc)][2] = REG_STATE_OUT_BASE + 28

\* a call that polled Control in vain before it saw DONE is about to return
C4_Witness ==
    /\ pc[1] = "tr_ret"
    /\ Polls(gh[1]) >= 1
    /\ Len(gh[1].acc) = 35 + Polls(gh[1])

\* C5 (AlreadyFinalized): once SHA256Final has returned on a context, no
\* later call on it changes state[0..7] or runs a transform.
C5_AlreadyFinalized ==
    \A t \in Threads :
        gh[t].finalized => ctx[t].state = gh[t].fstate /\ pc[t] \notin TrPcs

\* C6 (bounded wait): a transform that polls Control stops polling, whatever
\* the accelerator does.
C6_BoundedWait ==
    \A t \in Threads :
        (pc[t] = "tr_poll") ~> (pc[t] \notin {"tr_poll", "tr_test"})

\* thread t is between the first register write and the last state-out read
\* of a transform
Using(t) == pc[t] \in TrPcs \ {"tr_ret"} /\ gh[t].acc # <<>>

\* C7 (exclusive use): no two transforms are between their first register
\* write and their last state-out read at the same time.
C7_ExclusiveUse ==
    \A t, u \in Threads : t # u => ~(Using(t) /\ Using(u))

Initialised(t) == drv[t].phase \in {"feed1", "feed2"}

\* C8 (buffer length): on an initialised context no store to data[] has used
\* an index >= 64, datalen never exceeds 64, and datalen is 64 only from the
\* store that fills the block until SHA256Update resets it after the
\* transform it calls there (lines 99-102); between calls it is below 64.
C8_BufferLength ==
    \A t \in Threads :
        Initialised(t) =>
            /\ gh[t].maxidx < BLOCK
            /\ ctx[t].datalen <= BLOCK
            /\ ctx[t].datalen = BLOCK =>
                  \/ pc[t] \in TrPcs /\ loc[t].ret = "upd_ret"
                  \/ pc[t] = "upd_ret"
            /\ pc[t] = "idle" => ctx[t].datalen < BLOCK

\* SHA256Update is waiting for the accelerator on a block it has just filled
C8_Witness ==
    /\ Initialised(1)
    /\ ctx[1].datalen = BLOCK
    /\ pc[1] = "tr_poll" /\ loc[1].ret = "upd_ret"
    /\ gh[1].maxidx = BLOCK - 1

\* C9 as stated: when an SHA256Update of len bytes is about to return, the
\* 64-bit counter is 8 * len more than at its entry.
C9_Original ==
    \A t \in Threads :
        (pc[t] = "upd_loop" /\ loc[t].i = loc[t].len) =>
            Bits64(ctx[t].bitlen) = U64Add(gh[t].cbits, 8 * loc[t].len)

\* C9 (amended): at every iteration of an SHA256Update, and when it is about
\* to return, the 64-bit counter is its value at entry plus 512 for every
\* block the call has completed so far, modulo 2^64: in all
\* 512 * ((datalen at entry + len) \div 64).
C9_PerBlock ==
    \A t \in Threads :
        pc[t] = "upd_loop" =>
            Bits64(ctx[t].bitlen) =
                U64Add(gh[t].cbits, 512 * ((gh[t].cdatalen + loc[t].i) \div BLOCK))

\* an SHA256Update of 64 bytes is about to return with the counter wrapped
\* from 2^64 - 512 to 0
C9_Witness ==
    /\ pc[1] = "upd_loop" /\ loc[1].i = loc[1].len
    /\ loc[1].len = 64
    /\ gh[1].cbits = <<65535, 65535, 65535, 65024>>
    /\ Bits64(ctx[1].bitlen) = U64Zero

\* C10 (one transform per completed block): between calls, after SHA256Init
\* and SHA256Update calls of n bytes in all, the transform has been given
\* n \div 64 blocks, the k-th being bytes 64(k-1)..64k-1 of the input; datalen
\* is n % 64, data[0..datalen) the last n % 64 bytes, the counter 512 * (n \div 64).
C10_OnePerBlock ==
    \A t \in Threads :
        (Initialised(t) /\ pc[t] = "idle" /\ ~drv[t].final /\ gh[t].base = U64Zero) =>
            LET n == drv[t].fed
                q == n \div BLOCK
                r == n % BLOCK
                m == Prefix(t, n)
            IN  /\ Len(gh[t].blocks) = q
                /\ \A k \in 1..q :
                      gh[t].blocks[k] = [j \in 1..BLOCK |-> m[BLOCK * (k - 1) + j]]
                /\ ctx[t].datalen = r
                /\ \A j \in 1..r : ctx[t].data[j] = m[BLOCK * q + j]
                /\ Bits64(ctx[t].bitlen) = U64Add(U64Zero, 512 * q)

\* 130 bytes have been passed, one call having completed two blocks
C10_Witness ==
    /\ drv[1].phase = "feed1" /\ pc[1] = "idle" /\ ~drv[1].final
    /\ drv[1].fed = 130 /\ gh[1].span
    /\ Len(gh[1].blocks) = 2 /\ ctx[1].datalen = 2

\* thread t takes the step that is SHA256Init (lines 79-87)
InitStep(t) == pc[t] = "idle" /\ pc'[t] = "idle" /\ ctx'[t] = InitCtx

\* C11 (frame of state[]): a step changes state[0..7] of a context only if it
\* is SHA256Init or a state-out read of SHA256Transform (line 71); and an
\* SHA256Update that has not completed a block so far has state[] and the bit
\* counter as they were at its entry.
C11_StateFrame ==
    /\ [][\A t \in Threads :
            ctx'[t].state # ctx[t].state => (pc[t] = "tr_read" \/ InitStep(t))]_vars
    /\ [](\A t \in Threads :
            (pc[t] = "upd_loop" /\ gh[t].cdatalen + loc[t].i < BLOCK) =>
                /\ ctx[t].state = gh[t].cstate
                /\ Bits64(ctx[t].bitlen) = gh[t].cbits)

\* an SHA256Update of 1 byte, on a context that holds a partial block and
\* has been through a transform, is about to return without completing a block
C11_Witness ==
    /\ pc[1] = "upd_loop" /\ loc[1].i = loc[1].len /\ loc[1].len = 1
    /\ gh[1].cdatalen = 1 /\ ctx[1].datalen = 2
    /\ Len(gh[1].blocks) = 1
    /\ ctx[1].state = gh[1].cstate /\ ctx[1].state # InitState

\* C12 (allocation failure): a call of SHA256() whose malloc failed has
\* returned NULL and nothing else has happened: the context is as it was on
\* the stack, no SHA256Init / SHA256Update / SHA256Final was called, no
\* register was accessed, nothing was written through hashStr; and a call
\* that returned a string returned all 65 bytes of it written.
C12_AllocFailure ==
    \A t \in Threads :
        /\ drv[t].alloc = "null" =>
              /\ drv[t].phase = "failed" /\ drv[t].ret = "NULL"
              /\ pc[t] = "idle"
              /\ ctx[t] \in {Garbage(0), Garbage(170)}
              /\ ~drv[t].updated /\ ~drv[t].final /\ ~gh[t].finalized
              /\ gh[t].blocks = <<>> /\ gh[t].acc = <<>> /\ gh[t].maxidx = -1
              /\ hash[t] = <<>> /\ drv[t].str = <<>>
              /\ reg = [o \in RegOffsets |-> ZeroWord] /\ ~busy
        /\ drv[t].ret = "NULL" => drv[t].alloc = "null"
        /\ drv[t].ret = "hashStr" =>
              /\ drv[t].alloc = "ok"
              /\ Len(drv[t].str) = 65
              /\ \A k \in 1..65 : drv[t].str[k] # "?"

\* malloc failed and SHA256() has returned NULL
C12_Witness ==
    /\ drv[1].alloc = "null" /\ drv[1].ret = "NULL" /\ drv[1].phase = "failed"
    /\ ctx[1] = Garbage(170)

\* C13 (digest shape): when SHA256Final has returned, hash[] is 32 bytes,
\* hash[4k + i] being byte i, most significant first, of state[k], and
\* state[k] the state-out word k of the last round; when SHA256() has
\* returned a string, it is 64 characters of 0-9a-f, two for each digest byte
\* with the high nibble first, and a terminator.
C13_DigestShape ==
    \A t \in Threads :
        /\ (Returned(t) /\ drv[t].alloc = "ok") =>
              /\ Len(hash[t]) = 32
              /\ \A k \in 0..7 : \A i \in 0..3 :
                    /\ hash[t][4 * k + i + 1] = ctx[t].state[k + 1][i + 1]
                    /\ hash[t][4 * k + i + 1] = reg[REG_STATE_OUT_BASE + 4 * k][i + 1]
        /\ drv[t].ret = "hashStr" =>
              /\ Len(drv[t].str) = 65
              /\ drv[t].str[65] = "NUL"
              /\ \A j \in 1..32 :
                    /\ drv[t].str[2 * j - 1] = HexDigits[(hash[t][j] \div 16) + 1]
                    /\ drv[t].str[2 * j] = HexDigits[(hash[t][j] % 16) + 1]

\* SHA256("") has returned its string, which has a letter in it, and the
\* digest has a byte below 16 (printed with a leading 0)
C13_Witness ==
    /\ drv[1].ret = "hashStr" /\ Total(1) = 0
    /\ \E k \in 1..64 : drv[1].str[k] \in {"a", "b", "c", "d", "e", "f"}
    /\ \E j \in 1..32 : hash[1][j] < 16 /\ drv[1].str[2 * j - 1] = "0"
    /\ ctx[1].state[1][1] # ctx[1].state[1][2]

InputsWritten(acc) == Len(acc) >= 24

\* what the accelerator makes of the words a call wrote
RoundOf(acc) == Compress([j \in 1..8 |-> acc[16 + j][3]],
                         [j \in 1..16 |-> acc[j][3]])

\* C15 (no stale completion): every state-out read of a SHA256Transform call
\* comes after a read of Control that returned DONE and that itself came
\* after the call's write of GO, and the word read (hence the word stored
\* into ctx->state) is the round's result for the message and state-in words
\* written in that same call.
C15_NoStaleCompletion ==
    \A t \in Threads :
        LET acc == gh[t].acc
            round == RoundOf(acc)
            outs == {k \in 1..Len(acc) : acc[k][1] = "R" /\ acc[k][2] >= REG_STATE_OUT_BASE}
        IN  outs # {} =>
              /\ InputsWritten(acc)
              /\ \A k \in outs :
                    LET j == ((acc[k][2] - REG_STATE_OUT_BASE) \div 4) + 1
                    IN  /\ \E g \in 1..(k - 1) : \E c \in (g + 1)..(k - 1) :
                              /\ acc[g] = <<"W", REG_CONTROL, CTRL_GO>>
                              /\ IsCtrlRead(acc[c]) /\ DoneBit(acc[c][3])
                        /\ acc[k][3] = round[j]
                        /\ ctx[t].state[j] = acc[k][3]

\* the second transform of a context, started while Control still showed the
\* DONE of the first, has read DONE as clear, then as set, and is reading the
\* state-out words
C15_Witness ==
    /\ pc[1] = "tr_read" /\ loc[1].ti = 3
    /\ Len(gh[1].blocks) = 2
    /\ Polls(gh[1]) >= 1
    /\ DoneBit(reg[REG_CONTROL])

\* C16 (chaining): on a context initialised by SHA256Init, the word written
\* to state-in register j by the first transform is the j-th initial
\* constant, and by every later transform (those of SHA256Final included)
\* the word the preceding transform of the context read from state-out
\* register j.
C16_Chaining ==
    \A t \in Threads :
        Initialised(t) =>
            \A j \in 1..8 :
                Len(gh[t].acc) >= 16 + j =>
                    gh[t].acc[16 + j] =
                        << "W", REG_STATE_IN_BASE + 4 * (j - 1),
                           IF Len(gh[t].blocks) = 1 THEN InitState[j]
                           ELSE gh[t].lastout[j] >>

\* the last transform of SHA256Final, the third of its context, has written
\* its state-in words
C16_Witness ==
    /\ Initialised(1) /\ pc[1] = "tr_clear" /\ loc[1].ret = "fin_out"
    /\ Len(gh[1].blocks) = 3
    /\ gh[1].acc[17][3] = gh[1].lastout[1]
    /\ gh[1].lastout # InitState
    /\ gh[1].lastout[1] # gh[1].lastout[8]

\* C17 (termination with a responsive accelerator): every SHA256Transform
\* call returns, every SHA256Update and SHA256Final call returns, every call
\* of SHA256() returns; SHA256Final has issued 1 transform when it was
\* entered with datalen <= 55 and 2 when with datalen >= 56, and a complete
\* hash of n bytes n \div 64 + 1 or n \div 64 + 2 transforms in all.
C17_Termination ==
    /\ \A t \in Threads : (pc[t] \in TrPcs) ~> (pc[t] \notin TrPcs)
    /\ \A t \in Threads : (pc[t] # "idle") ~> (pc[t] = "idle")
    /\ \A t \in Threads :
          (drv[t].phase = "call") ~> (drv[t].ret \in {"hashStr", "NULL"})
    /\ [](\A t \in Threads :
            Returned(t) =>
                LET byFinal == Len(gh[t].blocks) - gh[t].fblocks
                IN  /\ byFinal = (IF gh[t].fdatalen <= 55 THEN 1 ELSE 2)
                    /\ gh[t].fdatalen = Total(t) % BLOCK
                    /\ Len(gh[t].blocks) = (Total(t) \div BLOCK) + byFinal)

\* SHA256() of 56 bytes has returned after two transforms, both issued by
\* SHA256Final
C17_Witness ==
    /\ drv[1].ret = "hashStr" /\ Total(1) = 56
    /\ gh[1].fdatalen = 56 /\ gh[1].fblocks = 0
    /\ Len(gh[1].blocks) = 2

\* the offsets of the register map, as the claim gives them
MsgOffsets == {4 + 4 * i : i \in 0..15}
StateInOffsets == {68 + 4 * i : i \in 0..7}
StateOutOffsets == {100 + 4 * i : i \in 0..7}

\* C18 (register map discipline): in every SHA256Transform call, message
\* register 0x04 + 4i is only written, with bytes 4i..4i+3 of the block most
\* significant first; state-in register 0x44 + 4i is only written, with
\* state[i] as at entry; state-out register 0x64 + 4i is only read, into
\* state[i]; every other access is to Control at 0x00; none of the 32 data
\* registers is accessed twice, and a call about to return has accessed each.
C18_RegisterMap ==
    \A t \in Threads :
        LET acc == gh[t].acc
            blk == gh[t].blocks[Len(gh[t].blocks)]
        IN  /\ \A k \in 1..Len(acc) :
                  LET o == acc[k][2]
                  IN  /\ o \in {0} \cup MsgOffsets \cup StateInOffsets \cup StateOutOffsets
                      /\ o \in MsgOffsets =>
                            /\ acc[k][1] = "W"
                            /\ acc[k][3] = << blk[o - 3], blk[o - 2], blk[o - 1], blk[o] >>
                      /\ o \in StateInOffsets =>
                            /\ acc[k][1] = "W"
                            /\ acc[k][3] = gh[t].tin[((o - 68) \div 4) + 1]
                      /\ o \in StateOutOffsets =>
                            /\ acc[k][1] = "R"
                            /\ ctx[t].state[((o - 100) \div 4) + 1] = acc[k][3]
                      /\ \A m \in 1..Len(acc) :
                            (m # k /\ acc[m][2] = o) => o = 0
            /\ pc[t] = "tr_ret" =>
                  \A o \in MsgOffsets \cup StateInOffsets \cup StateOutOffsets :
                      \E k \in 1..Len(acc) : acc[k][2] = o

\* the second transform of a context is about to return, having accessed
\* message register 15 at 0x40, state-in register 7 at 0x60 and state-out
\* register 7 at 0x80
C18_Witness ==
    /\ pc[1] = "tr_ret" /\ Len(gh[1].blocks) = 2
    /\ \E k \in 1..Len(gh[1].acc) : gh[1].acc[k][1] = "W" /\ gh[1].acc[k][2] = 64
    /\ \E k \in 1..Len(gh[1].acc) : gh[1].acc[k][1] = "W" /\ gh[1].acc[k][2] = 96
    /\ \E k \in 1..Len(gh[1].acc) : gh[1].acc[k][1] = "R" /\ gh[1].acc[k][2] = 128
    /\ gh[1].tin # InitState

\* the digest of message m computed on a fresh context: the padded message
\* folded block by block from the initial constants
RECURSIVE Chain(_, _)
Chain(bytes, st) ==
    IF Len(bytes) < BLOCK THEN st
    ELSE Chain(SubSeq(bytes, BLOCK + 1, Len(bytes)),
               SoftwareTransform(SubSeq(bytes, 1, BLOCK), st))

RefDigest(m) ==
    LET st == Chain(Padded(m, U64Add(U64Zero, 8 * Len(m))), InitState)
    IN  [n \in 1..32 |-> st[((n - 1) \div 4) + 1][((n - 1) % 4) + 1]]

\* thread t takes a step in which its caller calls SHA256Init
InitTaken(t) ==
    /\ drv'[t].phase \in {"feed1", "feed2"}
    /\ drv'[t].phase # drv[t].phase \/ (drv'[t].again /\ ~drv[t].again)

\* C19 (SHA256Init resets whatever the history): a call of SHA256Init, on a
\* context never initialised, in the middle of a stream with a partial
\* block, finalized, or just initialised, leaves state = the initial
\* constants, data[] all zero, datalen = 0 and the bit counter 0, and changes
\* no register; a second call in a row changes nothing; and every digest
\* computed afterwards is the digest of the message on a fresh context.
C19_InitResets ==
    /\ [][\A t \in Threads :
            InitTaken(t) =>
                /\ ctx'[t] = [data |-> [k \in 1..64 |-> 0], datalen |-> 0,
                              bitlen |-> <<ZeroWord, ZeroWord>>, state |-> InitState]
                /\ (drv'[t].again /\ ~drv[t].again) => ctx'[t] = ctx[t]
                /\ reg' = reg /\ busy' = busy
                /\ pc'[t] = "idle" /\ gh'[t].acc = <<>>]_vars
    /\ [](\A t \in Threads :
            (Hashed(t) /\ gh[t].base = U64Zero) => hash[t] = RefDigest(Msg(t)))

\* a context abandoned in the middle of a stream with a partial block was
\* initialised again, twice in a row, and has hashed 130 bytes since
C19_Witness ==
    /\ Hashed(1) /\ drv[1].phase = "feed2"
    /\ drv[1].from = "partial" /\ drv[1].again
    /\ Total(1) = 130 /\ Len(gh[1].blocks) = 3
    /\ hash[1] = RefDigest(Msg(1))

====
